---- MODULE Spec2Model ----
(***************************************************************************)
(* Caloric Expenditure Tool (src/main.py): the two FastAPI endpoints        *)
(*   POST /predict              predict_calories                            *)
(*   POST /predict-time-series  predict_time_series                         *)
(* and the form validation that runs in front of them.                      *)
(*                                                                          *)
(* Numbers.  The program computes on floats; the model computes on exact    *)
(* decimal fractions.  A number is a record [c, f] that stands for          *)
(*     (c + f / FracDen) hundredths,   c an integer, 0 <= f < FracDen,      *)
(* so 70.0 is [c |-> 7000, f |-> 0] and -0.004 is [c |-> -1, f |-> 0.6].    *)
(* FracDen is chosen so that every product formed from the input grids and  *)
(* the program's decimal constants is exact and every intermediate value    *)
(* stays below 2^31.  round(x, 2) yields the nearest hundredth; when the     *)
(* exact value lies halfway between two hundredths the float the program    *)
(* holds is a little above or a little below it, so either neighbour is a   *)
(* possible result and the rounding operators return the set of both.       *)
(***************************************************************************)
EXTENDS Integers, Sequences, FiniteSets, TLC

FracDen == (2^7) * 3 * (5^9)

Fx(c, f) == [c |-> c, f |-> f]

\* c hundredths and n/d of a hundredth (d divides FracDen)
Dec(c, n, d) == Fx(c, n * (FracDen \div d))

Zero == Fx(0, 0)

Norm(c, f) == Fx(c + (f \div FracDen), f % FracDen)

Add(x, y) == Norm(x.c + y.c, x.f + y.f)

Neg(x) == IF x.f = 0 THEN Fx(0 - x.c, 0) ELSE Fx(0 - x.c - 1, FracDen - x.f)

Sub(x, y) == Add(x, Neg(y))

Less(x, y) == x.c < y.c \/ (x.c = y.c /\ x.f < y.f)

Leq(x, y) == x = y \/ Less(x, y)

Abs(x) == IF x.c < 0 THEN Neg(x) ELSE x

\* x * k for a natural number k, by doubling
RECURSIVE Doubling(_, _)
Doubling(x, k) ==
    IF k = 0 THEN Zero
    ELSE IF k % 2 = 1 THEN Add(x, Doubling(Add(x, x), k \div 2))
    ELSE Doubling(Add(x, x), k \div 2)

\* FracDen = FracHi * FracLo
FracLo == (2^4) * 3 * (5^4)

FracHi == FracDen \div FracLo

\* x * k for a natural number k; below 2^16 the product is formed directly
\* from the two halves of x.f
Scale(x, k) ==
    IF x.f = 0 THEN Fx(x.c * k, 0)
    ELSE IF k < 2^16
    THEN LET a == (x.f \div FracLo) * k
             b == (x.f % FracLo) * k
         IN  Norm(x.c * k + (a \div FracHi) + (b \div FracDen),
                  (a % FracHi) * FracLo + (b % FracDen))
    ELSE Doubling(x, k)

\* x / q for q dividing FracDen; exact whenever the quotient is representable
DivInt(x, q) == Fx(x.c \div q, (x.c % q) * (FracDen \div q) + (x.f \div q))

\* x * r for the decimal constant r = r.num / r.den (in lowest terms)
Mul(x, r) == Scale(DivInt(x, r.den), r.num)

\* round(x, 2): the possible results
Round2(x) ==
    IF 2 * x.f < FracDen THEN {Fx(x.c, 0)}
    ELSE IF 2 * x.f > FracDen THEN {Fx(x.c + 1, 0)}
    ELSE {Fx(x.c, 0), Fx(x.c + 1, 0)}

\* round(x / r, 2) for the decimal constant r = r.num / r.den: the possible results
RoundDiv2(x, r) ==
    LET y == Scale(x, r.den)
        k == y.c \div r.num
        t == 2 * (y.c % r.num) + (IF 2 * y.f >= FracDen THEN 1 ELSE 0)
        g == (2 * y.f) % FracDen
    IN  IF t < r.num THEN {Fx(k, 0)}
        ELSE IF t > r.num \/ g > 0 THEN {Fx(k + 1, 0)}
        ELSE {Fx(k, 0), Fx(k + 1, 0)}

Whole(n) == Fx(100 * n, 0)

Ratio(n, d) == [num |-> n, den |-> d]

--------------------------------------------------------------------------
(* Inputs.  Every field other than unit_system is taken from the values    *)
(* the form validation accepts (age 1..150, weight and height >= 1.0).     *)

UnitLiteral == {"metric", "imperial"}

UnitStrings == {"metric", "imperial", "Metric", "stone"}

Sexes == {"male", "female"}

ActivityLevels ==
    {"sedentary", "lightly_active", "moderately_active", "very_active", "extra_active"}

Ages == {20, 25, 30, 45}

MaxBodyWeight == 129

BodyWeights == {60, 70} \cup (110 .. MaxBodyWeight)

BodyHeights == {68, 69, 165, 175}

PredictiveDataInput ==
    [unit_system : UnitStrings, age : Ages,
     weight : {Whole(w) : w \in BodyWeights},
     height : {Whole(h) : h \in BodyHeights},
     biological_sex : Sexes, activity_level : ActivityLevels]

\* 70.0 and 150.123
InitialWeights == {Whole(70), Dec(15012, 3, 10)}

\* -0.5, 0, 0.004, 5/12, 0.5, 5/6, 0.84, 1.0
WeeklyChanges ==
    {Fx(-50, 0), Zero, Dec(0, 4, 10), Dec(41, 2, 3), Fx(50, 0), Dec(83, 1, 3),
     Fx(84, 0), Fx(100, 0)}

TimeSeriesPredictiveDataInput ==
    [unit_system : UnitStrings, initial_weight : InitialWeights,
     weight_change_per_week : WeeklyChanges]

\* values random.uniform(-0.1, 0.1) can return: -0.1 and 0.0995
NoiseValues == {Fx(-10, 0), Dec(9, 95, 100)}

NoData == [unit_system |-> ""]

--------------------------------------------------------------------------
(* predict_calories                                                        *)

\* str.lower() on the unit strings of the model
Lower(u) == IF u = "Metric" THEN "metric" ELSE u

\* conversion_factors: 0.453592 = 56699/125000, 2.54 = 127/50
conversion_factors ==
    [metric   |-> [weight |-> Ratio(1, 1), height |-> Ratio(1, 1)],
     imperial |-> [weight |-> Ratio(56699, 125000), height |-> Ratio(127, 50)]]

\* the other formula family: 10 W + 6.25 H - 5 A + 5 (male), - 161 (female)
MifflinStJeor(sex, weight_in_kg, height_in_cm, age) ==
    LET base == Sub(Add(Scale(weight_in_kg, 10), Mul(height_in_cm, Ratio(25, 4))),
                    Scale(Whole(age), 5))
    IN  IF sex = "male" THEN Add(base, Whole(5)) ELSE Sub(base, Whole(161))

\* Harris-Benedict for male, Mifflin-St Jeor for female
BlendedFormulas(sex, weight_in_kg, height_in_cm, age) ==
    IF sex = "male"
    THEN Sub(Add(Add(Dec(6647, 3, 10), Mul(weight_in_kg, Ratio(34379, 2500))),
                 Mul(height_in_cm, Ratio(50033, 10000))),
             Mul(Whole(age), Ratio(1351, 200)))
    ELSE MifflinStJeor(sex, weight_in_kg, height_in_cm, age)

\* 66.473 + 13.7516 W + 5.0033 H - 6.7550 A   (male)
\* 655.0955 + 9.5634 W + 1.8496 H - 4.6756 A  (female)
HarrisBenedict(sex, weight_in_kg, height_in_cm, age) ==
    IF sex = "male"
    THEN Sub(Add(Add(Dec(6647, 3, 10), Mul(weight_in_kg, Ratio(34379, 2500))),
                 Mul(height_in_cm, Ratio(50033, 10000))),
             Mul(Whole(age), Ratio(1351, 200)))
    ELSE Sub(Add(Add(Dec(65509, 55, 100), Mul(weight_in_kg, Ratio(47817, 5000))),
                 Mul(height_in_cm, Ratio(1156, 625))),
             Mul(Whole(age), Ratio(11689, 2500)))

\* the lookup never finds the level and falls back to its default
activity_multipliers_default(level) == Ratio(6, 5)

\* activity_multipliers.get(level, 1.2): 1.2, 1.375, 1.55, 1.725, 1.9
activity_multipliers(level) ==
    CASE level = "sedentary" -> Ratio(6, 5)
      [] level = "lightly_active" -> Ratio(11, 8)
      [] level = "moderately_active" -> Ratio(31, 20)
      [] level = "very_active" -> Ratio(69, 40)
      [] level = "extra_active" -> Ratio(19, 10)
      [] OTHER -> Ratio(6, 5)

LowNeeds ==
    "Your daily caloric needs are relatively low. Ensure you're getting enough nutrients."

AverageNeeds ==
    "Your daily caloric needs are within the average range. Maintain a balanced diet."

HighNeeds ==
    "Your daily caloric needs are high. Consider consulting a nutritionist for personalized advice."

\* the bands applied to the value as it is reported
CaloriesRecommendationReported(needs) ==
    LET reported == CHOOSE v \in Round2(needs) : TRUE
    IN  IF Less(reported, Whole(1500)) THEN LowNeeds
        ELSE IF Leq(reported, Whole(2500)) THEN AverageNeeds
        ELSE HighNeeds

CaloriesRecommendation(needs) ==
    IF Less(needs, Whole(1500)) THEN LowNeeds
    ELSE IF Leq(Whole(1500), needs) /\ Leq(needs, Whole(2500)) THEN AverageNeeds
    ELSE HighNeeds

--------------------------------------------------------------------------
(* predict_time_series                                                     *)

NumWeeks == 12

WeightFactor(d) == conversion_factors[Lower(d.unit_system)].weight

InitialWeightKg(d, f) == Mul(d.initial_weight, f)

\* the weekly change left in the caller's unit
WeightChangePerWeekRaw(d, f) == d.weight_change_per_week

WeightChangePerWeekKg(d, f) == Mul(d.weight_change_per_week, f)

\* the week-0 point in kg
SeedPointKg(d) == [week |-> 0, weight |-> Mul(d.initial_weight, WeightFactor(d))]

SeedPoint(d) == [week |-> 0, weight |-> d.initial_weight]

\* the running weight carried on without rounding
NextWeightUnrounded(current, change, noise) == {Add(Sub(current, change), noise)}

\* current_weight -= weight_change_per_week_kg; round(current_weight + variation, 2)
NextWeight(current, change, noise) == Round2(Add(Sub(current, change), noise))

\* round(current_weight / factor, 2)
OutputWeight(current, factor) == RoundDiv2(current, factor)

SignificantLoss ==
    "Your projected weight loss is significant. Consider consulting a healthcare professional."

HealthyLoss ==
    "Your projected weight loss is healthy. Maintain your current plan."

MinimalLoss ==
    "Your projected weight loss is minimal. You might want to adjust your caloric intake or activity level."

\* the total taken from the converted weekly change
TotalWeightChangeKg(d) == Scale(Mul(d.weight_change_per_week, WeightFactor(d)), 12)

TotalWeightChange(d) == Scale(d.weight_change_per_week, 12)

TimeSeriesRecommendation(d) ==
    LET total_weight_change == TotalWeightChange(d)
    IN  IF Less(Whole(10), total_weight_change) THEN SignificantLoss
        ELSE IF Leq(Whole(5), total_weight_change) /\ Leq(total_weight_change, Whole(10))
             THEN HealthyLoss
        ELSE MinimalLoss

--------------------------------------------------------------------------
(* The random module.  random.uniform(a, b) is a + (b - a) * random(), and *)
(* random() reads and advances the one generator object the module creates *)
(* when it is imported.  The generator is modelled as a full-period        *)
(* congruential generator over 0 .. RngModulus - 1.                        *)

RngModulus == 8

NumCalls == 2

Calls == 1 .. NumCalls

RngNext(s) == (5 * s + 3) % RngModulus

\* -0.1 + 0.2 * (s / RngModulus)
RngUniform(s) == Add(Fx(-10, 0), DivInt(Fx(20 * s, 0), RngModulus))

RECURSIVE RngAfter(_, _)
RngAfter(s, n) == IF n = 0 THEN s ELSE RngAfter(RngNext(s), n - 1)

--------------------------------------------------------------------------
VARIABLES
    pc,                  \* "idle", "handler", "loop", "done"
    endpoint,            \* "", "predict", "predict-time-series"
    data,                \* the form of the request being served
    status,              \* HTTP status of the response, 0 while there is none
    bmr,                 \* predict_calories: bmr before rounding
    daily_caloric_needs, \* predict_calories: daily_caloric_needs before rounding
    response,            \* PredictiveData: the returned (rounded) bmr and needs
    recommendations,     \* recommendations of either response
    predicted_weight,    \* predict_time_series: the list of data points
    current_weight,      \* predict_time_series: running weight in kg
    week,                \* predict_time_series: loop variable
    factor,              \* predict_time_series: conversion_factors[unit]["weight"]
    weight_change_per_week_kg,
    variation,           \* predict_time_series: last value drawn
    draws,               \* number of random.uniform calls of the request
    rng_state,           \* state of the generator behind the random module
    rng_seed,            \* the state the generator was given at import
    calls                \* SpecShared: the running calls of predict_time_series

vars == <<pc, endpoint, data, status, bmr, daily_caloric_needs, response,
          recommendations, predicted_weight, current_weight, week, factor,
          weight_change_per_week_kg, variation, draws, rng_state, rng_seed, calls>>

request_vars ==
    <<pc, endpoint, data, status, bmr, daily_caloric_needs, response,
      recommendations, predicted_weight, current_weight, week, factor,
      weight_change_per_week_kg, variation, draws>>

shared_vars == <<rng_state, rng_seed, calls>>

calories_vars == <<bmr, daily_caloric_needs, response>>

series_vars ==
    <<predicted_weight, current_weight, week, factor, weight_change_per_week_kg,
      variation, draws>>

series_locals == <<factor, weight_change_per_week_kg>>

NoResponse == [bmr |-> Zero, daily_caloric_needs |-> Zero]

NoCalls == [r \in Calls |-> [pc |-> "idle", week |-> 0, variation |-> Zero]]

InitRequest ==
    /\ pc = "idle"
    /\ endpoint = ""
    /\ data = NoData
    /\ status = 0
    /\ bmr = Zero
    /\ daily_caloric_needs = Zero
    /\ response = NoResponse
    /\ recommendations = ""
    /\ predicted_weight = <<>>
    /\ current_weight = Zero
    /\ week = 0
    /\ factor = Ratio(1, 1)
    /\ weight_change_per_week_kg = Zero
    /\ variation = Zero
    /\ draws = 0

\* One request at a time; the generator is left out and every draw may
\* return any of NoiseValues.
Init ==
    /\ InitRequest
    /\ rng_state = 0
    /\ rng_seed = 0
    /\ calls = NoCalls

\* FastAPI parses the form into the pydantic model before the handler runs;
\* a unit_system outside the Literal is answered with 422 and the handler
\* is not called.
ParseForm(path, d) ==
    /\ endpoint' = path
    /\ data' = d
    /\ IF d.unit_system \in UnitLiteral
       THEN pc' = "handler" /\ status' = 0
       ELSE pc' = "done" /\ status' = 422
    /\ UNCHANGED <<calories_vars, recommendations, series_vars, shared_vars>>

PostPredict ==
    /\ pc = "idle"
    /\ \E d \in PredictiveDataInput : ParseForm("predict", d)

PostPredictTimeSeries ==
    /\ pc = "idle"
    /\ \E d \in TimeSeriesPredictiveDataInput : ParseForm("predict-time-series", d)

predict_calories ==
    /\ pc = "handler"
    /\ endpoint = "predict"
    /\ pc' = "done"
    /\ LET unit == Lower(data.unit_system) IN
       IF unit \notin DOMAIN conversion_factors
       THEN /\ status' = 400
            /\ UNCHANGED <<calories_vars, recommendations>>
       ELSE LET factors == conversion_factors[unit]
                weight_in_kg == Mul(data.weight, factors.weight)
                height_in_cm == Mul(data.height, factors.height)
                b == HarrisBenedict(data.biological_sex, weight_in_kg, height_in_cm, data.age)
                multiplier == activity_multipliers(data.activity_level)
                needs == Mul(b, multiplier)
            IN  /\ bmr' = b
                /\ daily_caloric_needs' = needs
                /\ recommendations' = CaloriesRecommendation(needs)
                /\ response' \in [bmr : Round2(b), daily_caloric_needs : Round2(needs)]
                /\ status' = 200
    /\ UNCHANGED <<endpoint, data, series_vars, shared_vars>>

\* lines 229-248: unit check, conversion, week-0 point
predict_time_series ==
    /\ pc = "handler"
    /\ endpoint = "predict-time-series"
    /\ IF Lower(data.unit_system) \notin DOMAIN conversion_factors
       THEN /\ status' = 400
            /\ pc' = "done"
            /\ UNCHANGED <<predicted_weight, current_weight, week, series_locals>>
       ELSE /\ factor' = WeightFactor(data)
            /\ weight_change_per_week_kg' = WeightChangePerWeekKg(data, factor')
            /\ predicted_weight' = <<SeedPoint(data)>>
            /\ current_weight' = InitialWeightKg(data, factor')
            /\ week' = 1
            /\ pc' = "loop"
            /\ UNCHANGED status
    /\ UNCHANGED <<endpoint, data, calories_vars, recommendations, variation, draws,
                   shared_vars>>

\* lines 250-256: one iteration of the loop
predict_time_series_week ==
    /\ pc = "loop"
    /\ week <= NumWeeks
    /\ \E v \in NoiseValues :
          /\ variation' = v
          /\ current_weight' \in NextWeight(current_weight, weight_change_per_week_kg, v)
          /\ \E out \in OutputWeight(current_weight', factor) :
                predicted_weight' = Append(predicted_weight, [week |-> week, weight |-> out])
    /\ draws' = draws + 1
    /\ week' = week + 1
    /\ UNCHANGED <<pc, endpoint, data, status, calories_vars, recommendations,
                   series_locals, shared_vars>>

\* lines 258-269: recommendation and response
predict_time_series_return ==
    /\ pc = "loop"
    /\ week > NumWeeks
    /\ recommendations' = TimeSeriesRecommendation(data)
    /\ status' = 200
    /\ pc' = "done"
    /\ UNCHANGED <<endpoint, data, calories_vars, series_vars, shared_vars>>

Next ==
    \/ PostPredict
    \/ PostPredictTimeSeries
    \/ predict_calories
    \/ predict_time_series
    \/ predict_time_series_week
    \/ predict_time_series_return

Spec == Init /\ [][Next]_vars

--------------------------------------------------------------------------
(* Several calls of predict_time_series in one process (FastAPI runs a     *)
(* def endpoint in a thread pool).  Each call is reduced to the statements *)
(* that touch the generator: the twelve random.uniform calls of its loop.  *)

InitShared ==
    /\ InitRequest
    /\ rng_state \in 0 .. RngModulus - 1
    /\ rng_seed = rng_state
    /\ calls = NoCalls

\* the call enters the loop (lines 229-250)
CallBegin(r) ==
    /\ calls[r].pc = "idle"
    /\ calls' = [calls EXCEPT ![r] = [pc |-> "loop", week |-> 1, variation |-> Zero]]
    /\ UNCHANGED <<rng_state, rng_seed, request_vars>>

\* line 251: variation = random.uniform(-0.1, 0.1)
CallDraw(r) ==
    /\ calls[r].pc = "loop"
    /\ calls[r].week <= NumWeeks
    /\ calls' = [calls EXCEPT ![r] = [pc |-> "loop", week |-> calls[r].week + 1,
                                      variation |-> RngUniform(rng_state)]]
    /\ rng_state' = RngNext(rng_state)
    /\ UNCHANGED <<rng_seed, request_vars>>

\* the loop is over and the call returns
CallReturn(r) ==
    /\ calls[r].pc = "loop"
    /\ calls[r].week > NumWeeks
    /\ calls' = [calls EXCEPT ![r].pc = "done"]
    /\ UNCHANGED <<rng_state, rng_seed, request_vars>>

NextShared ==
    \/ \E r \in Calls : CallBegin(r)
    \/ \E r \in Calls : CallDraw(r)
    \/ \E r \in Calls : CallReturn(r)

SpecShared == InitShared /\ [][NextShared]_vars

--------------------------------------------------------------------------
(* Properties                                                              *)

SeriesReturned == endpoint = "predict-time-series" /\ pc = "done" /\ status = 200

CaloriesReturned == endpoint = "predict" /\ pc = "done" /\ status = 200

\* C1: every accepted /predict-time-series request returns, and what it
\* returns is exactly 13 points with weeks 0, 1, ..., 12 in that order whose
\* week-0 weight is the raw initial_weight, unconverted and unrounded.
C1_ThirteenPoints ==
    (endpoint = "predict-time-series" /\ pc = "done" /\ data.unit_system \in UnitLiteral) =>
        /\ status = 200
        /\ Len(predicted_weight) = 13
        /\ \A i \in 1 .. 13 : predicted_weight[i].week = i - 1
        /\ predicted_weight[1].weight = data.initial_weight

\* an imperial request whose initial weight 150.123 is not a whole hundredth has returned
C1_Witness ==
    /\ SeriesReturned
    /\ data.unit_system = "imperial"
    /\ data.initial_weight = Dec(15012, 3, 10)
    /\ Len(predicted_weight) = 13

\* C2: the recommendation of /predict-time-series is decided by
\* 12 * raw weight_change_per_week alone: above 10 significant, from 5 to 10
\* (both included) healthy, anything else minimal; neither the unit system nor
\* the noise enters.
C2_RawTotalDecides ==
    SeriesReturned =>
        LET total == Add(Scale(data.weight_change_per_week, 10),
                         Scale(data.weight_change_per_week, 2))
        IN  recommendations =
                (IF Less(Fx(1000, 0), total) THEN SignificantLoss
                 ELSE IF Less(total, Fx(500, 0)) THEN MinimalLoss
                 ELSE HealthyLoss)

\* an imperial request with 12 * weekly change = 10 exactly got the healthy message
C2_Witness ==
    /\ SeriesReturned
    /\ data.unit_system = "imperial"
    /\ data.weight_change_per_week = Dec(83, 1, 3)
    /\ recommendations = HealthyLoss

\* C3 as claimed: the recommendation of /predict is the band of the reported
\* (2-decimal) daily_caloric_needs: reported < 1500 low, 1500.00 <= reported
\* <= 2500.00 balanced, reported >= 2500.01 high.
C3_ReportedBand ==
    CaloriesReturned =>
        LET reported == response.daily_caloric_needs
        IN  recommendations =
                (IF Less(reported, Fx(150000, 0)) THEN LowNeeds
                 ELSE IF Leq(reported, Fx(250000, 0)) THEN AverageNeeds
                 ELSE HighNeeds)

\* C3 amended: the recommendation of /predict is the band of
\* daily_caloric_needs before rounding (below 1500 low, 1500 to 2500 balanced,
\* above 2500 high); so a reported value up to 1499.99 is low, from 1500.01 to
\* 2499.99 balanced, from 2500.01 high, while a reported 1500.00 is low or
\* balanced and a reported 2500.00 is balanced or high.
C3_UnroundedBand ==
    CaloriesReturned =>
        LET reported == response.daily_caloric_needs
        IN  /\ recommendations =
                (IF Less(daily_caloric_needs, Fx(150000, 0)) THEN LowNeeds
                 ELSE IF Less(Fx(250000, 0), daily_caloric_needs) THEN HighNeeds
                 ELSE AverageNeeds)
            /\ Leq(reported, Fx(149999, 0)) => recommendations = LowNeeds
            /\ (Leq(Fx(150001, 0), reported) /\ Leq(reported, Fx(249999, 0)))
                    => recommendations = AverageNeeds
            /\ Leq(Fx(250001, 0), reported) => recommendations = HighNeeds
            /\ reported = Fx(150000, 0) => recommendations \in {LowNeeds, AverageNeeds}
            /\ reported = Fx(250000, 0) => recommendations \in {AverageNeeds, HighNeeds}

\* a response reports 1500.00 together with the low-needs message
C3_Witness ==
    /\ CaloriesReturned
    /\ response.daily_caloric_needs = Fx(150000, 0)
    /\ recommendations = LowNeeds

\* C4: the reported daily_caloric_needs is round2(unrounded bmr * multiplier)
\* for the table 1.2, 1.375, 1.55, 1.725, 1.9, and it is within
\* 0.005 * (1 + multiplier) of reported bmr * multiplier.
C4_NeedsIsBmrTimesMultiplier ==
    CaloriesReturned =>
        LET level == data.activity_level
            \* the multiplier in fortieths
            m40 == CASE level = "sedentary" -> 48
                     [] level = "lightly_active" -> 55
                     [] level = "moderately_active" -> 62
                     [] level = "very_active" -> 69
                     [] level = "extra_active" -> 76
            gap == 40 * response.daily_caloric_needs.c - m40 * response.bmr.c
        IN  /\ response.daily_caloric_needs \in Round2(DivInt(Scale(bmr, m40), 40))
            /\ response.bmr \in Round2(bmr)
            /\ response.daily_caloric_needs.f = 0
            /\ response.bmr.f = 0
            /\ 2 * gap <= 40 + m40
            /\ 2 * gap >= 0 - (40 + m40)

\* a very_active request has returned
C4_Witness ==
    /\ CaloriesReturned
    /\ data.activity_level = "very_active"
    /\ Less(Zero, response.bmr)

\* C5: a request whose unit_system is neither 'metric' nor 'imperial' ends in
\* HTTP 400 and nothing is computed: no result, no point, no random draw.
C5_InvalidUnitIs400 ==
    (pc = "done" /\ data.unit_system \notin {"metric", "imperial"}) =>
        /\ status = 400
        /\ bmr = Zero /\ daily_caloric_needs = Zero /\ response = NoResponse
        /\ recommendations = ""
        /\ predicted_weight = <<>>
        /\ draws = 0

\* C6 as claimed: the point of week i, taken in kg (point * factor), is within
\* 0.1 * i of initial kg - i * weekly change in kg.
C6_NoiseBound ==
    (endpoint = "predict-time-series" /\ Len(predicted_weight) > 1) =>
        \* every point is the newest point of the state that appended it
        LET n == Len(predicted_weight) IN
            LET i == n - 1
                f == conversion_factors[data.unit_system].weight
                linear == Sub(Mul(data.initial_weight, f),
                              Scale(Mul(data.weight_change_per_week, f), i))
                dev == Abs(Sub(Mul(predicted_weight[n].weight, f), linear))
            IN  Leq(dev, Fx(10 * i, 0))

\* C6 amended: the point of week i, taken in kg, is within 0.105 * i + 0.005
\* of the noise-free linear projection (0.1 of noise and 0.005 of rounding per
\* step, and 0.005 for rounding the emitted value): at most 1.265 at week 12.
C6_NoiseAndRoundingBound ==
    (endpoint = "predict-time-series" /\ Len(predicted_weight) > 1) =>
        \* every point is the newest point of the state that appended it
        LET n == Len(predicted_weight) IN
            LET i == n - 1
                f == conversion_factors[data.unit_system].weight
                linear == Sub(Mul(data.initial_weight, f),
                              Scale(Mul(data.weight_change_per_week, f), i))
                dev == Abs(Sub(Mul(predicted_weight[n].weight, f), linear))
            IN  Leq(dev, Dec(10 * i + (5 * i + 5) \div 10, (5 * i + 5) % 10, 10))

\* a returned trajectory whose week-12 point is more than 1.2 kg away from the
\* linear projection
C6_Witness ==
    /\ SeriesReturned
    /\ Len(predicted_weight) = 13
    /\ LET f == conversion_factors[data.unit_system].weight
           linear == Sub(Mul(data.initial_weight, f),
                         Scale(Mul(data.weight_change_per_week, f), 12))
       IN  Less(Fx(120, 0), Abs(Sub(Mul(predicted_weight[13].weight, f), linear)))

\* C7: the draws of a call are not affected by the draws of any other call,
\* earlier or interleaved: the k-th value a call draws is the k-th value of
\* the generator as the process started it.
C7_DrawsUnaffected ==
    \A r \in Calls :
        calls[r].week > 1 =>
            calls[r].variation = RngUniform(RngAfter(rng_seed, calls[r].week - 2))

\* C8: the bmr before rounding is the original Harris-Benedict value, male
\* 66.473 + 13.7516 W + 5.0033 H - 6.7550 A, female
\* 655.0955 + 9.5634 W + 1.8496 H - 4.6756 A, with W = weight * 0.453592 and
\* H = height * 2.54 for imperial and W = weight, H = height for metric.
C8_HarrisBenedictBothSexes ==
    CaloriesReturned =>
        LET imperial == data.unit_system = "imperial"
            W == IF imperial THEN Scale(DivInt(data.weight, 1000000), 453592) ELSE data.weight
            H == IF imperial THEN Scale(DivInt(data.height, 100), 254) ELSE data.height
            A == Fx(100 * data.age, 0)
            T(x, k) == Scale(DivInt(x, 10000), k)
        IN  /\ data.biological_sex = "male" =>
                bmr = Sub(Add(Add(Dec(6647, 3, 10), T(W, 137516)), T(H, 50033)), T(A, 67550))
            /\ data.biological_sex = "female" =>
                bmr = Sub(Add(Add(Dec(65509, 55, 100), T(W, 95634)), T(H, 18496)), T(A, 46756))

\* an imperial request for a female has returned
C8_Witness ==
    /\ CaloriesReturned
    /\ data.unit_system = "imperial"
    /\ data.biological_sex = "female"
    /\ Less(Zero, bmr)

\* the request of C9: age 30, 70 kg, 175 cm, male, metric
C9_Input ==
    /\ endpoint = "predict"
    /\ data.unit_system = "metric"
    /\ data.age = 30
    /\ data.weight = Fx(7000, 0)
    /\ data.height = Fx(17500, 0)
    /\ data.biological_sex = "male"

\* C9 as claimed: for age 30, 70 kg, 175 cm, male, metric the BMR is the
\* Mifflin-St Jeor value 1680.0.
C9_MifflinValue ==
    (C9_Input /\ CaloriesReturned) => (bmr = Fx(168000, 0) /\ response.bmr = Fx(168000, 0))

\* C9 amended: for age 30, 70 kg, 175 cm, male, metric the BMR is the
\* Harris-Benedict value 66.473 + 13.7516*70 + 5.0033*175 - 6.7550*30 =
\* 1702.0125, reported as 1702.01.
C9_HarrisBenedictValue ==
    (C9_Input /\ CaloriesReturned) =>
        (bmr = Dec(170201, 25, 100) /\ response.bmr = Fx(170201, 0))

\* the request of C9 has returned
C9_Witness == C9_Input /\ CaloriesReturned /\ data.activity_level = "sedentary"

\* C10: each iteration of the loop draws one value and carries one number, the
\* running kg weight: the new one is round2(previous - weekly change in kg +
\* the value drawn), where the previous one is the converted initial weight in
\* week 1 and a whole number of hundredths afterwards, and the point emitted
\* for the week is round2(new / factor), which is not what is carried on.
C10_CarriedMetricWeight ==
    [][(pc = "loop" /\ week' = week + 1) =>
        LET f == conversion_factors[data.unit_system].weight
            change == Mul(data.weight_change_per_week, f)
        IN  /\ draws' = draws + 1
            /\ draws = week - 1
            /\ variation' \in NoiseValues
            /\ week = 1 => current_weight = Mul(data.initial_weight, f)
            /\ week > 1 => current_weight.f = 0
            /\ current_weight' \in Round2(Add(Sub(current_weight, change), variation'))
            /\ Len(predicted_weight') = Len(predicted_weight) + 1
            /\ predicted_weight'[week + 1].week = week
            /\ predicted_weight'[week + 1].weight \in RoundDiv2(current_weight', f)
            /\ \A n \in 1 .. Len(predicted_weight) : predicted_weight'[n] = predicted_weight[n]
    ]_vars

\* the loop of an imperial request has run its twelve iterations
C10_Witness ==
    /\ endpoint = "predict-time-series"
    /\ pc = "loop"
    /\ week = 13
    /\ draws = 12
    /\ data.unit_system = "imperial"
    /\ current_weight.f = 0
====
